---- MODULE Spec2Model ----
(***************************************************************************)
(* Knowledge-base ingestion pipeline and vector-store gateway of PromptPit *)
(* (backend/app/services/knowledge_base_service.py, chroma_service.py,     *)
(* api/knowledge_bases.py).                                                *)
(*                                                                         *)
(* The relational store holds knowledge-base rows and content rows; the    *)
(* vector store holds collections of documents.  Every service call is     *)
(* split at its commits and at its calls to the vector store, the file     *)
(* system and the generative model, so that the order of those effects is  *)
(* visible.  In Spec one call runs at a time.                              *)
(*                                                                         *)
(* uuid.uuid4().hex[:8] is modelled as a value that was never handed out   *)
(* before (uuidCtr); the 2^-32 chance of two suffixes colliding is outside *)
(* the model.  Primary keys are serial (nextKb, nextContent).  Strings are *)
(* kept apart only as far as the code tells them apart: None, the empty    *)
(* string and a few non-empty ones.  The relational store does not fail;   *)
(* the generative model, the vector store's add and the removal of an      *)
(* upload directory can.                                                   *)
(***************************************************************************)
EXTENDS Integers, Sequences, FiniteSets, TLC

\* ---------------------------------------------------------------- bounds
MaxKb == 2
MaxContent == 2
MaxOps == 4
\* longest list of fragments a retrieval hands to the prompt builder
MaxFragments == 6
\* longest documents, metadatas and ids list handed to add_documents
MaxBatch == 2
\* longest list of files handed to extract_text_from_files
MaxFiles == 2
\* most Text and Table elements a DOCX or PPTX file is partitioned into
MaxElements == 2
\* largest max_summary_tokens a caller asks for, in quarters of the ceiling
MaxTokenUnits == 5
\* number of process_content calls that can be in flight together
MaxTasks == 2

\* ---------------------------------------------------------------- values
NoneVal == "None"
NoRow == [absent |-> TRUE]
NoDoc == <<0, 0>>

KbIds == 1..MaxKb
ContentIds == 1..MaxContent
\* collection names: 1..MaxKb are handed to knowledge bases, 0 to none
CollNames == 0..MaxKb
\* n_results of a search
NResults == {1, 2}

\* sequences over S of length at most n
SeqsUpTo(S, n) == UNION {[1..m -> S] : m \in 0..n}

\* Python truthiness of an Optional[str]: None and "" are falsy
Falsy(s) == s \in {NoneVal, ""}

\* texts add_text_content can be given
TextInputs == {"", "txt"}
\* what extract_text_from_files can hand back for one document
ExtractOutputs == {"", "doc"}
\* what the generative model can answer
LlmOutputs == {"", "sum"}
\* custom_summary argument of process_content
CustomInputs == {NoneVal, "", "X"}
\* summary argument of update_content_summary
SummaryInputs == {"", "Y"}

VARIABLES
    kb,           \* knowledge_bases table: id -> row or NoRow
    content,      \* knowledge_base_contents table: id -> row or NoRow
    nextKb,       \* next serial id of knowledge_bases
    nextContent,  \* next serial id of knowledge_base_contents
    collections,  \* collections of the vector store: [name, uid]
    collCtr,      \* number of collections the vector store has created
    docs,         \* documents of the vector store: [coll, id, text]
    files,        \* content ids whose uploaded file is on disk
    uuidCtr,      \* number of uuid4 draws used for document ids
    pc,           \* position of the call in flight
    call,         \* locals of the call in flight
    batch,        \* locals of process_uploaded_files
    last,         \* outcome of the call that finished last
    deleted,      \* <<coll, id>> of records delete_content removed
    used,         \* every document id a collection was ever given
    ops,          \* number of calls made so far
    io            \* arguments and result of a gateway or endpoint function

vars == <<kb, content, nextKb, nextContent, collections, collCtr, docs, files,
          uuidCtr, pc, call, batch, last, deleted, used, ops, io>>

\* the stores and the calls on them
storeVars == <<kb, content, nextKb, nextContent, collections, collCtr, docs,
               files, uuidCtr, pc, call, batch, last, deleted, used, ops>>

NoCall == [op |-> "none", c |-> 0, k |-> 0, custom |-> NoneVal,
           obj |-> NoRow, dirty |-> {}, err |-> NoneVal,
           old |-> NoDoc, llm |-> FALSE, extracted |-> FALSE,
           from |-> "none", ids |-> {}, recreated |-> FALSE]
NoLast == [op |-> "none", c |-> 0, k |-> 0, ret |-> "none", old |-> NoDoc,
           custom |-> NoneVal, llm |-> FALSE, extracted |-> FALSE,
           err |-> NoneVal, results |-> <<>>, all |-> <<>>, handle |-> 0,
           name |-> 0, ids |-> {}, total |-> 0, existed |-> FALSE,
           from |-> "none", rag |-> <<>>, sent |-> <<>>,
           recreated |-> FALSE]
NoBatch == [active |-> FALSE, k |-> 0, queue |-> <<>>, results |-> <<>>,
            provOK |-> FALSE, all |-> <<>>]

NoIo == [fn |-> "none"]

\* empty stores, no call in flight
InitStores ==
    /\ kb = [k \in KbIds |-> NoRow]
    /\ content = [c \in ContentIds |-> NoRow]
    /\ nextKb = 1
    /\ nextContent = 1
    /\ collections = {}
    /\ collCtr = 0
    /\ docs = {}
    /\ files = {}
    /\ uuidCtr = 0
    /\ pc = "idle"
    /\ call = NoCall
    /\ batch = NoBatch
    /\ last = NoLast
    /\ deleted = {}
    /\ used = {}
    /\ ops = 0

Init == InitStores /\ io = NoIo

Idle == pc = "idle" /\ ~batch.active

\* a call from outside: counted against the bound on the run's length
Enter == Idle /\ ops < MaxOps /\ ops' = ops + 1

\* ------------------------------------------------------- vector store
\* ChromaService.get_collection: raises when the collection is absent
CollectionExists(name) == \E col \in collections : col.name = name

\* the collection of a name
get_collection(colls, name) == CHOOSE col \in colls : col.name = name

\* a create_collection that always makes a new collection under the name
create_collection_always_new(colls, name, ctr) ==
    {col \in colls : col.name # name} \cup {[name |-> name, uid |-> ctr + 1]}

\* ChromaService.create_collection: an existing name is returned as it is,
\* a new one is created under the next identity of the store
create_collection(colls, name, ctr) ==
    IF \E col \in colls : col.name = name
    THEN colls
    ELSE colls \cup {[name |-> name, uid |-> ctr + 1]}

\* a delete_collection that leaves the collection where it is
delete_collection_skipped(colls, name) == colls

\* ChromaService.delete_collection on an existing collection
delete_collection(colls, name) == {col \in colls : col.name # name}

\* documents of one collection
DocsOf(name) == {d \in docs : d.coll = name}

\* the document a vector id resolves to in a collection (get_document_by_id)
Resolves(name, id) == \E d \in docs : d.coll = name /\ d.id = id

\* a delete_document that leaves the document where it is
delete_document_skipped(ds, name, id) == ds

\* ChromaService.delete_document on an existing collection
delete_document(ds, name, id) == {d \in ds : ~(d.coll = name /\ d.id = id)}

\* ChromaService.delete_collection on an existing collection
delete_collection_docs(ds, name) == {d \in ds : d.coll # name}

\* ------------------------------------------------------ relational rows
\* a knowledge_bases row: its collection name and its active flag; is_active
\* is left to the column default, which list_knowledge_bases (line 76)
\* takes to be true
KbRow(name) == [coll |-> name, is_active |-> TRUE]

ContentRow(k, ctype, text, hasFile) ==
    [kb |-> k, ctype |-> ctype, text |-> text, summary |-> NoneVal,
     status |-> "pending", error |-> NoneVal, docid |-> NoDoc,
     file |-> hasFile]

Exists(c) == content[c] # NoRow
KbExists(k) == kb[k] # NoRow

\* a commit that drops the text and the summary the call has set
Commit_without_partial_work(row, obj, dirty) ==
    [f \in DOMAIN row |->
        IF f \in dirty \ {"text", "summary"} THEN obj[f] ELSE row[f]]

\* Session.commit: the UPDATE carries the attributes the call has set
Commit(row, obj, dirty) ==
    [f \in DOMAIN row |-> IF f \in dirty THEN obj[f] ELSE row[f]]

\* ------------------------------------------------- create_knowledge_base
CreateKnowledgeBase ==
    /\ UNCHANGED io
    /\ Enter
    /\ nextKb <= MaxKb
    /\ LET name == nextKb IN
        /\ collections' = create_collection(collections, name, collCtr)
        /\ collCtr' = IF CollectionExists(name) THEN collCtr ELSE collCtr + 1
        /\ kb' = [kb EXCEPT ![nextKb] = KbRow(name)]
    /\ nextKb' = nextKb + 1
    /\ last' = [NoLast EXCEPT !.op = "create_kb", !.k = nextKb, !.ret = "ok"]
    /\ UNCHANGED <<content, nextContent, docs, files, uuidCtr, pc, call,
                   batch, deleted, used>>

\* ------------------------------------------------- update_knowledge_base
\* fields of a request that also names the collection
UpdateFieldsWithCollection ==
    {"name", "description", "is_active", "chroma_collection_name"}

\* schemas KnowledgeBaseUpdate: the fields a request can set
UpdateFields == {"name", "description", "is_active"}

\* kb_data.dict(exclude_unset=True): the fields the request has set (set)
\* and their values; a field that is not set carries a fixed value
UpdateKwargs ==
    {kw \in [set : SUBSET UpdateFields, name : {"s"}, description : {"s"},
             is_active : BOOLEAN, chroma_collection_name : CollNames] :
        /\ "is_active" \notin kw.set => kw.is_active
        /\ "chroma_collection_name" \notin kw.set
              => kw.chroma_collection_name = 0}

\* the attribute of the row a keyword sets; name and description are
\* columns no other call reads and are not kept in the row
AttributeOf(key) == IF key = "chroma_collection_name" THEN "coll" ELSE key

\* lines 93-95: setattr for every keyword the row has as an attribute
update_knowledge_base(row, kwargs) ==
    [a \in DOMAIN row |->
        IF \E key \in kwargs.set : AttributeOf(key) = a
        THEN kwargs[CHOOSE key \in kwargs.set : AttributeOf(key) = a]
        ELSE row[a]]

\* lines 87-101 behind PUT /knowledge-bases/{kb_id}
UpdateKnowledgeBase(k, kwargs) ==
    /\ UNCHANGED io
    /\ Enter
    /\ IF ~KbExists(k)
       THEN /\ last' = [NoLast EXCEPT !.op = "update_kb", !.k = k,
                               !.ret = "none", !.err = "E_notfound"]
            /\ UNCHANGED kb
       ELSE /\ kb' = [kb EXCEPT ![k] = update_knowledge_base(@, kwargs)]
            /\ last' = [NoLast EXCEPT !.op = "update_kb", !.k = k,
                                      !.ret = "ok", !.name = kb[k].coll]
    /\ UNCHANGED <<content, nextKb, nextContent, collections, collCtr, docs,
                   files, uuidCtr, pc, call, batch, deleted, used>>

\* _determine_content_type: image extensions give image, all else document
determine_content_type(kind) == IF kind = "image" THEN "image" ELSE "document"

\* ---------------------------------------------------------- upload_files
UploadFiles(k, kinds) ==
    /\ UNCHANGED io
    /\ Enter
    /\ k \in KbIds
    /\ nextContent + Len(kinds) - 1 <= MaxContent
    /\ IF ~KbExists(k)
       THEN /\ last' = [NoLast EXCEPT !.op = "upload", !.k = k,
                               !.ret = "raised", !.err = "E_notfound"]
            /\ UNCHANGED <<content, nextContent, files>>
       ELSE /\ content' = [c \in ContentIds |->
                   IF c >= nextContent /\ c < nextContent + Len(kinds)
                   THEN ContentRow(k, determine_content_type(kinds[c - nextContent + 1]),
                                   NoneVal, TRUE)
                   ELSE content[c]]
            /\ files' = files \cup (nextContent..(nextContent + Len(kinds) - 1))
            /\ nextContent' = nextContent + Len(kinds)
            /\ last' = [NoLast EXCEPT !.op = "upload", !.k = k, !.ret = "ok",
                                      !.c = nextContent]
    /\ UNCHANGED <<kb, nextKb, collections, collCtr, docs, uuidCtr, pc, call, batch, deleted, used>>

\* ------------------------------------------------------ add_text_content
AddTextContent(k, text) ==
    /\ UNCHANGED io
    /\ Enter
    /\ k \in KbIds
    /\ nextContent <= MaxContent
    /\ IF ~KbExists(k)
       THEN /\ last' = [NoLast EXCEPT !.op = "add_text", !.k = k,
                               !.ret = "raised", !.err = "E_notfound"]
            /\ UNCHANGED <<content, nextContent>>
       ELSE /\ content' = [content EXCEPT ![nextContent] =
                               ContentRow(k, "text", text, FALSE)]
            /\ nextContent' = nextContent + 1
            /\ last' = [NoLast EXCEPT !.op = "add_text", !.k = k, !.ret = "ok",
                                      !.c = nextContent, !.custom = text]
    /\ UNCHANGED <<kb, nextKb, collections, collCtr, docs, files, uuidCtr, pc, call,
                   batch, deleted, used>>

\* ------------------------------------------------------- process_content
\* entry of a batch result (process_uploaded_files, results.append)
ResultEntry(c, ret, err) ==
    [c |-> c, status |-> IF ret = "true" THEN "completed" ELSE "failed",
     error |-> err]

\* a batch loop that gives up at the first record that raises
BatchStopsAtFailure(c, ret, err) ==
    IF batch.active
    THEN batch' = [batch EXCEPT
                      !.queue = IF ret = "true" THEN Tail(@) ELSE <<>>,
                      !.results = Append(@, ResultEntry(c, ret, err))]
    ELSE UNCHANGED batch

\* the batch loop takes the outcome of the call it awaited
BatchTakes(c, ret, err) ==
    IF batch.active
    THEN batch' = [batch EXCEPT !.queue = Tail(@),
                                !.results = Append(@, ResultEntry(c, ret, err))]
    ELSE UNCHANGED batch

\* a handler that puts the record back to 'pending'
MarkFailedAsPending(o, err) == [o EXCEPT !.status = "pending", !.error = err]

\* the handler's assignments at lines 288-289
MarkFailed(o, err) == [o EXCEPT !.status = "failed", !.error = err]

\* a failed check that marks the record 'failed'
rejected_marks_failed(rows, c, err) ==
    IF rows[c] # NoRow THEN [rows EXCEPT ![c] = MarkFailed(@, err)] ELSE rows

\* lines 225-242 and 294-295: a failed check raises before anything is
\* assigned and the outer handler only raises again
rejected(rows, c, err) == rows

\* lines 218-246: look the record up, validate, set 'processing', commit
ProcessStart(c, custom, provOK) ==
    /\ UNCHANGED io
    /\ pc = "idle"
    /\ UNCHANGED <<kb, nextKb, nextContent, collections, collCtr, docs, files,
                   uuidCtr, deleted, used>>
    /\ IF ~Exists(c) \/ ~provOK
       THEN /\ last' = [NoLast EXCEPT !.op = "process", !.c = c,
                           !.ret = "raised", !.custom = custom,
                           !.err = IF ~Exists(c) THEN "E_notfound" ELSE "E_provider"]
            /\ BatchTakes(c, "raised",
                          IF ~Exists(c) THEN "E_notfound" ELSE "E_provider")
            /\ content' = rejected(content, c,
                          IF ~Exists(c) THEN "E_notfound" ELSE "E_provider")
            /\ UNCHANGED <<pc, call>>
       ELSE /\ content' = [content EXCEPT ![c].status = "processing"]
            /\ call' = [NoCall EXCEPT !.op = "process", !.c = c,
                           !.k = content[c].kb, !.custom = custom,
                           !.obj = content'[c], !.old = content[c].docid,
                           !.from = content[c].status]
            /\ pc' = "p_extract"
            /\ last' = NoLast
            /\ UNCHANGED batch

ProcessContent(c, custom, provOK) ==
    /\ Enter
    /\ ProcessStart(c, custom, provOK)

\* _extract_text_from_file: first entry of the extraction service's answer
\* for a document, a file-name placeholder for an image
extract_text_from_file(ctype) ==
    IF ctype = "document" THEN ExtractOutputs
    ELSE IF ctype = "image" THEN {"img"}
    ELSE {""}

\* lines 249-256
ProcessExtract ==
    /\ UNCHANGED io
    /\ pc = "p_extract"
    /\ LET o == call.obj IN
       IF o.ctype \in {"document", "image"} /\ Falsy(o.text)
       THEN \E x \in extract_text_from_file(o.ctype) :
               /\ call' = [call EXCEPT !.obj.text = x,
                                       !.dirty = @ \cup {"text"},
                                       !.extracted = TRUE]
               /\ pc' = "p_summarize"
       ELSE IF o.ctype = "text" /\ Falsy(o.text)
       THEN /\ call' = [call EXCEPT !.err = "E_text"]
            /\ pc' = "p_fail"
       ELSE /\ pc' = "p_summarize"
            /\ UNCHANGED call
    /\ UNCHANGED <<kb, content, nextKb, nextContent, collections, collCtr, docs,
                   files, uuidCtr, batch, last, deleted, used, ops>>

\* lines 258-266 with _generate_summary (438-481)
ProcessSummarize ==
    /\ UNCHANGED io
    /\ pc = "p_summarize"
    /\ IF ~Falsy(call.custom)
       THEN /\ call' = [call EXCEPT !.obj.summary = call.custom,
                                    !.dirty = @ \cup {"summary"}]
            /\ pc' = "p_index"
       ELSE IF Falsy(call.obj.text)
       THEN /\ call' = [call EXCEPT !.obj.summary = "nosum",
                                    !.dirty = @ \cup {"summary"}]
            /\ pc' = "p_index"
       ELSE \/ \E x \in LlmOutputs :
                 /\ call' = [call EXCEPT !.obj.summary = x,
                                         !.dirty = @ \cup {"summary"},
                                         !.llm = TRUE]
                 /\ pc' = "p_index"
            \/ /\ call' = [call EXCEPT !.err = "E_summary", !.llm = TRUE]
               /\ pc' = "p_fail"
    /\ UNCHANGED <<kb, content, nextKb, nextContent, collections, collCtr, docs,
                   files, uuidCtr, batch, last, deleted, used, ops>>

\* a document text that prefers the extracted text to the summary
document_text_prefers_extracted(o) ==
    IF ~Falsy(o.text) THEN o.text ELSE o.summary

\* _add_to_chroma line 490: the summary, else the extracted text
document_text(o) == IF ~Falsy(o.summary) THEN o.summary ELSE o.text

\* an indexing step that leaves a missing collection missing
ensure_collection_skipped(colls, name, ctr) == colls

\* _add_to_chroma lines 507-518: get the collection, create it when the
\* get raises
ensure_collection(colls, name, ctr) == create_collection(colls, name, ctr)

\* a document id that is kept when the record already has one
NewDocIdKeepsOld(c, old, ctr) == IF old # NoDoc THEN old ELSE <<c, ctr + 1>>

\* _add_to_chroma line 521: doc_{content.id}_{uuid4().hex[:8]}
NewDocId(c, old, ctr) == <<c, ctr + 1>>

\* lines 268-280 with _add_to_chroma (483-535)
ProcessIndex ==
    /\ UNCHANGED io
    /\ pc = "p_index"
    /\ LET o == call.obj
           name == kb[call.k].coll
           id == NewDocId(call.c, call.old, uuidCtr) IN
       IF Falsy(document_text(o))
       THEN /\ call' = [call EXCEPT !.err = "E_index"]
            /\ pc' = "p_fail"
            /\ UNCHANGED <<collections, collCtr, docs, uuidCtr, used>>
       ELSE /\ collections' = ensure_collection(collections, name, collCtr)
            /\ collCtr' = IF CollectionExists(name) THEN collCtr ELSE collCtr + 1
            /\ \/ /\ docs' = docs \cup {[coll |-> name, id |-> id,
                                         text |-> document_text(o)]}
                  /\ used' = used \cup {id}
                  /\ uuidCtr' = uuidCtr + 1
                  /\ call' = [call EXCEPT !.obj.docid = id,
                                          !.obj.status = "completed",
                                          !.dirty = @ \cup {"docid", "status"},
                                          !.recreated = ~CollectionExists(name)]
                  /\ pc' = "p_commit"
               \/ /\ call' = [call EXCEPT !.err = "E_index",
                                          !.recreated = ~CollectionExists(name)]
                  /\ pc' = "p_fail"
                  /\ UNCHANGED <<docs, uuidCtr, used>>
    /\ UNCHANGED <<kb, content, nextKb, nextContent, files, batch, last,
                   deleted, ops>>

\* an outcome that turns a raised exception into a returned false
ProcessLastReturnsFalse(ret, err) ==
    [NoLast EXCEPT !.op = "process", !.c = call.c, !.k = call.k,
                   !.ret = IF ret = "raised" THEN "false" ELSE ret,
                   !.custom = call.custom, !.old = call.old,
                   !.llm = call.llm, !.extracted = call.extracted,
                   !.err = err, !.from = call.from,
                   !.recreated = call.recreated]

\* what the caller of process_content sees: true returned (284) or an
\* exception raised (292, 295)
ProcessLast(ret, err) ==
    [NoLast EXCEPT !.op = "process", !.c = call.c, !.k = call.k,
                   !.ret = ret, !.custom = call.custom, !.old = call.old,
                   !.llm = call.llm, !.extracted = call.extracted,
                   !.err = err, !.from = call.from,
                   !.recreated = call.recreated]

\* lines 282-284
ProcessCommit ==
    /\ UNCHANGED io
    /\ pc = "p_commit"
    /\ content' = [content EXCEPT ![call.c] = Commit(@, call.obj, call.dirty)]
    /\ last' = ProcessLast("true", NoneVal)
    /\ BatchTakes(call.c, "true", NoneVal)
    /\ pc' = "idle"
    /\ call' = NoCall
    /\ UNCHANGED <<kb, nextKb, nextContent, collections, collCtr, docs, files,
                   uuidCtr, deleted, used, ops>>

\* lines 286-295
ProcessFail ==
    /\ UNCHANGED io
    /\ pc = "p_fail"
    /\ content' = [content EXCEPT ![call.c] =
           Commit(@, MarkFailed(call.obj, call.err),
                  call.dirty \cup {"status", "error"})]
    /\ last' = ProcessLast("raised", call.err)
    /\ BatchTakes(call.c, "raised", call.err)
    /\ pc' = "idle"
    /\ call' = NoCall
    /\ UNCHANGED <<kb, nextKb, nextContent, collections, collCtr, docs, files,
                   uuidCtr, deleted, used, ops>>

\* ------------------------------------------------ update_content_summary
\* lines 331-346: look the record up, set the summary on the session object
UpdateContentSummary(c, summary) ==
    /\ UNCHANGED io
    /\ Enter
    /\ UNCHANGED <<kb, nextKb, nextContent, collections, collCtr, docs,
                   files, uuidCtr, batch, deleted, used>>
    /\ IF ~Exists(c)
       THEN /\ last' = [NoLast EXCEPT !.op = "update", !.c = c,
                               !.ret = "false", !.err = "E_notfound"]
            /\ UNCHANGED <<content, pc, call>>
       ELSE IF content[c].docid # NoDoc
       THEN /\ call' = [NoCall EXCEPT !.op = "update", !.c = c,
                           !.k = content[c].kb, !.custom = summary,
                           !.obj = [content[c] EXCEPT !.summary = summary],
                           !.dirty = {"summary"}, !.old = content[c].docid]
            /\ pc' = "u_delete"
            /\ last' = NoLast
            /\ UNCHANGED content
       ELSE /\ content' = [content EXCEPT ![c].summary = summary]
            /\ last' = [NoLast EXCEPT !.op = "update", !.c = c, !.ret = "true",
                                      !.custom = summary]
            /\ UNCHANGED <<pc, call>>

UpdateLast(ret) ==
    [NoLast EXCEPT !.op = "update", !.c = call.c, !.k = call.k, !.ret = ret,
                   !.custom = call.custom, !.old = call.old]

\* lines 347-351: delete the old document; a missing collection raises and
\* the handler at 360-362 rolls the session back
UpdateDelete ==
    /\ UNCHANGED io
    /\ pc = "u_delete"
    /\ LET name == kb[call.k].coll IN
       IF CollectionExists(name)
       THEN /\ docs' = delete_document(docs, name, call.old)
            /\ pc' = "u_add"
            /\ UNCHANGED <<call, last>>
       ELSE /\ last' = [UpdateLast("raised") EXCEPT !.err = "E_collection"]
            /\ pc' = "idle"
            /\ call' = NoCall
            /\ UNCHANGED docs
    /\ UNCHANGED <<kb, content, nextKb, nextContent, collections, collCtr,
                   files, uuidCtr, batch, deleted, used, ops>>

\* lines 353-355 with _add_to_chroma; a failure rolls the session back
UpdateAdd ==
    /\ UNCHANGED io
    /\ pc = "u_add"
    /\ LET o == call.obj
           name == kb[call.k].coll
           id == NewDocId(call.c, call.old, uuidCtr) IN
       IF Falsy(document_text(o))
       THEN /\ last' = UpdateLast("raised")
            /\ pc' = "idle"
            /\ call' = NoCall
            /\ UNCHANGED <<collections, collCtr, docs, uuidCtr, used>>
       ELSE /\ collections' = ensure_collection(collections, name, collCtr)
            /\ collCtr' = IF CollectionExists(name) THEN collCtr ELSE collCtr + 1
            /\ \/ /\ docs' = docs \cup {[coll |-> name, id |-> id,
                                         text |-> document_text(o)]}
                  /\ used' = used \cup {id}
                  /\ uuidCtr' = uuidCtr + 1
                  /\ call' = [call EXCEPT !.obj.docid = id,
                                          !.dirty = @ \cup {"docid"}]
                  /\ pc' = "u_commit"
                  /\ UNCHANGED last
               \/ /\ last' = UpdateLast("raised")
                  /\ pc' = "idle"
                  /\ call' = NoCall
                  /\ UNCHANGED <<docs, uuidCtr, used>>
    /\ UNCHANGED <<kb, content, nextKb, nextContent, files, batch, deleted,
                   ops>>

\* lines 357-358
UpdateCommit ==
    /\ UNCHANGED io
    /\ pc = "u_commit"
    /\ content' = [content EXCEPT ![call.c] = Commit(@, call.obj, call.dirty)]
    /\ last' = UpdateLast("true")
    /\ pc' = "idle"
    /\ call' = NoCall
    /\ UNCHANGED <<kb, nextKb, nextContent, collections, collCtr, docs,
                   files, uuidCtr, batch, deleted, used, ops>>

\* -------------------------------------------------------- delete_content
DeleteLast(ret) ==
    [NoLast EXCEPT !.op = "delete", !.c = call.c, !.k = call.k, !.ret = ret,
                   !.old = call.old, !.from = call.from]

\* lines 366-381: look the record up, delete its document from the store
DeleteContent(c) ==
    /\ UNCHANGED io
    /\ Enter
    /\ UNCHANGED <<kb, content, nextKb, nextContent, collections, collCtr,
                   files, uuidCtr, batch, deleted, used>>
    /\ IF ~Exists(c)
       THEN /\ last' = [NoLast EXCEPT !.op = "delete", !.c = c,
                               !.ret = "false", !.err = "E_notfound"]
            /\ UNCHANGED <<docs, pc, call>>
       ELSE LET name == kb[content[c].kb].coll
                id == content[c].docid IN
            IF id # NoDoc /\ ~CollectionExists(name)
            THEN /\ last' = [NoLast EXCEPT !.op = "delete", !.c = c,
                                !.k = content[c].kb, !.ret = "raised",
                                !.old = id, !.err = "E_collection"]
                 /\ UNCHANGED <<docs, pc, call>>
            ELSE /\ docs' = IF id # NoDoc THEN delete_document(docs, name, id)
                            ELSE docs
                 /\ call' = [NoCall EXCEPT !.op = "delete", !.c = c,
                                !.k = content[c].kb, !.old = id,
                                !.from = content[c].status]
                 /\ pc' = "d_file"
                 /\ last' = NoLast

\* lines 383-385
DeleteFile ==
    /\ UNCHANGED io
    /\ pc = "d_file"
    /\ files' = files \ {call.c}
    /\ pc' = "d_row"
    /\ UNCHANGED <<kb, content, nextKb, nextContent, collections, collCtr,
                   docs, uuidCtr, call, batch, last, deleted, used, ops>>

\* lines 387-391
DeleteRow ==
    /\ UNCHANGED io
    /\ pc = "d_row"
    /\ content' = [content EXCEPT ![call.c] = NoRow]
    /\ deleted' = IF call.old # NoDoc
                  THEN deleted \cup {<<kb[call.k].coll, call.old>>}
                  ELSE deleted
    /\ last' = DeleteLast("true")
    /\ pc' = "idle"
    /\ call' = NoCall
    /\ UNCHANGED <<kb, nextKb, nextContent, collections, collCtr, docs,
                   files, uuidCtr, batch, used, ops>>

\* ------------------------------------------------- delete_knowledge_base
KbLast(k, ret) ==
    [NoLast EXCEPT !.op = "delete_kb", !.k = k, !.ret = ret,
                   !.name = IF KbExists(k) THEN kb[k].coll ELSE 0,
                   !.ids = call.ids]

\* vector ids of the completed records of a knowledge base
CompletedIds(k) ==
    {content[c].docid : c \in {x \in ContentIds :
        Exists(x) /\ content[x].kb = k /\ content[x].status = "completed"}}

\* lines 105-111: look the row up, delete the whole collection
DeleteKnowledgeBase(k) ==
    /\ UNCHANGED io
    /\ Enter
    /\ UNCHANGED <<kb, content, nextKb, nextContent, collCtr, files,
                   uuidCtr, batch, deleted, used>>
    /\ IF ~KbExists(k)
       THEN /\ last' = [KbLast(k, "false") EXCEPT !.err = "E_notfound"]
            /\ UNCHANGED <<collections, docs, pc, call>>
       ELSE IF ~CollectionExists(kb[k].coll)
       THEN /\ last' = [KbLast(k, "raised") EXCEPT !.err = "E_collection"]
            /\ UNCHANGED <<collections, docs, pc, call>>
       ELSE /\ collections' = delete_collection(collections, kb[k].coll)
            /\ docs' = delete_collection_docs(docs, kb[k].coll)
            /\ call' = [NoCall EXCEPT !.op = "delete_kb", !.k = k,
                                      !.ids = CompletedIds(k)]
            /\ pc' = "k_files"
            /\ last' = NoLast

\* lines 113-116: remove the upload directory when there is one; a failure
\* of the file system on a stored file raises and the handler at 124-126
\* rolls the session back
DeleteKbFiles ==
    /\ UNCHANGED io
    /\ pc = "k_files"
    /\ \/ /\ files' = {c \in files : content[c].kb # call.k}
          /\ pc' = "k_row"
          /\ UNCHANGED <<call, last>>
       \/ /\ \E c \in files : content[c].kb = call.k
          /\ last' = KbLast(call.k, "raised")
          /\ pc' = "idle"
          /\ call' = NoCall
          /\ UNCHANGED files
    /\ UNCHANGED <<kb, content, nextKb, nextContent, collections, collCtr,
                   docs, uuidCtr, batch, deleted, used, ops>>

\* lines 118-122: delete the row; its content rows go with it
DeleteKbRow ==
    /\ UNCHANGED io
    /\ pc = "k_row"
    /\ kb' = [kb EXCEPT ![call.k] = NoRow]
    /\ content' = [c \in ContentIds |->
                     IF Exists(c) /\ content[c].kb = call.k THEN NoRow
                     ELSE content[c]]
    /\ last' = KbLast(call.k, "true")
    /\ pc' = "idle"
    /\ call' = NoCall
    /\ UNCHANGED <<nextKb, nextContent, collections, collCtr, docs, files,
                   uuidCtr, batch, deleted, used, ops>>

\* -------------------------------------------------------------- searches
\* collection.query: the n nearest documents, all of them when fewer
QueryResults(name, n) ==
    {S \in SUBSET DocsOf(name) :
        Cardinality(S) = IF Cardinality(DocsOf(name)) < n
                         THEN Cardinality(DocsOf(name)) ELSE n}

\* ChromaService.search_documents (175-220)
search_documents(op, k, name, n, S) ==
    IF ~CollectionExists(name)
    THEN [NoLast EXCEPT !.op = op, !.k = k, !.name = name, !.ret = "raised"]
    ELSE [NoLast EXCEPT !.op = op, !.k = k, !.name = name, !.ret = "ok",
                        !.ids = {d.id : d \in S},
                        !.total = Cardinality(S)]

SearchDocuments(name, n) ==
    /\ UNCHANGED io
    /\ Enter
    /\ \E S \in QueryResults(name, n) :
          last' = search_documents("search", 0, name, n, S)
    /\ UNCHANGED <<kb, content, nextKb, nextContent, collections, collCtr,
                   docs, files, uuidCtr, pc, call, batch, deleted, used>>

\* KnowledgeBaseService.search_knowledge_base (297-315)
SearchKnowledgeBase(k, n) ==
    /\ UNCHANGED io
    /\ Enter
    /\ IF ~KbExists(k)
       THEN last' = [NoLast EXCEPT !.op = "search_kb", !.k = k,
                                   !.ret = "raised", !.err = "E_notfound"]
       ELSE \E S \in QueryResults(kb[k].coll, n) :
               last' = search_documents("search_kb", k, kb[k].coll, n, S)
    /\ UNCHANGED <<kb, content, nextKb, nextContent, collections, collCtr,
                   docs, files, uuidCtr, pc, call, batch, deleted, used>>

\* ------------------------------------- ChromaService.create_collection
CreateCollection(name) ==
    /\ UNCHANGED io
    /\ Enter
    /\ name = 0 \/ name < nextKb
    /\ collections' = create_collection(collections, name, collCtr)
    /\ collCtr' = IF CollectionExists(name) THEN collCtr ELSE collCtr + 1
    /\ last' = [NoLast EXCEPT !.op = "create_collection", !.name = name,
                   !.ret = "ok", !.existed = CollectionExists(name),
                   !.handle = get_collection(collections', name).uid]
    /\ UNCHANGED <<kb, content, nextKb, nextContent, docs, files, uuidCtr,
                   pc, call, batch, deleted, used>>

\* ------------------------------------------------ process_uploaded_files
\* lines 205-206: the pending records of the knowledge base, newest first
RECURSIVE PendingFrom(_, _)
PendingFrom(k, c) ==
    IF c = 0 THEN <<>>
    ELSE IF Exists(c) /\ content[c].kb = k /\ content[c].status = "pending"
         THEN <<c>> \o PendingFrom(k, c - 1)
         ELSE PendingFrom(k, c - 1)

\* a selection that also takes the records left 'processing'
RECURSIVE PendingOrProcessingFrom(_, _)
PendingOrProcessingFrom(k, c) ==
    IF c = 0 THEN <<>>
    ELSE IF /\ Exists(c)
            /\ content[c].kb = k
            /\ content[c].status \in {"pending", "processing"}
         THEN <<c>> \o PendingOrProcessingFrom(k, c - 1)
         ELSE PendingOrProcessingFrom(k, c - 1)

PendingOrProcessingContents(k) == PendingOrProcessingFrom(k, MaxContent)

PendingContents(k) == PendingFrom(k, MaxContent)

\* lines 202-212
BatchBegin(k, provOK) ==
    /\ UNCHANGED io
    /\ Enter
    /\ IF PendingContents(k) = <<>>
       THEN /\ last' = [NoLast EXCEPT !.op = "batch", !.k = k,
                               !.ret = "no_pending",
                               !.err = IF KbExists(k) THEN NoneVal
                                       ELSE "E_notfound"]
            /\ UNCHANGED batch
       ELSE /\ batch' = [active |-> TRUE, k |-> k,
                         queue |-> PendingContents(k), results |-> <<>>,
                         provOK |-> provOK, all |-> PendingContents(k)]
            /\ last' = NoLast
    /\ UNCHANGED <<kb, content, nextKb, nextContent, collections, collCtr,
                   docs, files, uuidCtr, pc, call, deleted, used>>

\* lines 213-215: the loop calls process_content for the next record
BatchNext ==
    /\ batch.active
    /\ batch.queue # <<>>
    /\ ProcessStart(Head(batch.queue), NoneVal, batch.provOK)
    /\ UNCHANGED ops

\* lines 229-232
BatchEnd ==
    /\ UNCHANGED io
    /\ batch.active
    /\ pc = "idle"
    /\ batch.queue = <<>>
    /\ last' = [NoLast EXCEPT !.op = "batch", !.k = batch.k, !.ret = "ok",
                              !.results = batch.results, !.all = batch.all]
    /\ batch' = NoBatch
    /\ UNCHANGED <<kb, content, nextKb, nextContent, collections, collCtr,
                   docs, files, uuidCtr, pc, call, deleted, used, ops>>

\* ------------------------------------------- api/prompts.py: run_prompt
\* n_results of the retrieval and the slice [:5] of its results
TopK == 5

\* str(i) for the index of a context block
Digits == <<"1", "2", "3", "4", "5", "6", "7", "8", "9">>

\* seq[:n]
Take(seq, n) == SubSeq(seq, 1, IF Len(seq) < n THEN Len(seq) ELSE n)

\* f"Context {i}:\n{document}" as the pieces it is made of
context_part(i, document) == <<"Context ", Digits[i], ":\n", document>>

\* context_parts of the loop over enumerate(results[:5], 1)
context_parts(results) ==
    [i \in 1..Len(Take(results, TopK)) |-> context_part(i, results[i])]

\* "\n\n".join(context_parts)
RECURSIVE join(_)
join(parts) ==
    IF parts = <<>> THEN <<>>
    ELSE IF Len(parts) = 1 THEN parts[1]
    ELSE parts[1] \o <<"\n\n">> \o join(Tail(parts))

\* the f-string of lines 411-417
enhanced_text(rag_context, text) ==
    <<"Based on the following context information:", "\n\n">>
    \o rag_context
    \o <<"\n\n", "Question: ", text, "\n\n",
         "Please answer the question using the provided context. If the context doesn't contain enough information to answer the question, please say so.">>

\* lines 398-418: the text run_prompt sends for the results of a retrieval
run_prompt_text(results, text) ==
    IF results # <<>>
    THEN LET rag_context == join(context_parts(results)) IN
         IF rag_context # <<>> THEN enhanced_text(rag_context, text)
         ELSE <<text>>
    ELSE <<text>>

\* the orders in which a query can rank the documents it returns
Orderings(S) ==
    {f \in [1..Cardinality(S) -> S] :
        \A i, j \in 1..Cardinality(S) : i # j => f[i] # f[j]}

\* lines 385-395 and 420-422: what the retrieval leaves in run_prompt; an
\* exception of search_knowledge_base is printed and the results stay empty
rag_search(k) ==
    IF KbExists(k) /\ CollectionExists(kb[k].coll)
    THEN UNION {{[i \in 1..Len(f) |-> f[i].text] : f \in Orderings(S)} :
                   S \in QueryResults(kb[k].coll, TopK)}
    ELSE {<<>>}

\* a run_prompt that gives up when the retrieval raised
run_prompt_stops_on_search_error(searchOk, llmOk) ==
    IF ~searchOk THEN [llm |-> FALSE, ret |-> "raised"]
    ELSE [llm |-> TRUE, ret |-> IF llmOk THEN "ok" ELSE "raised"]

\* lines 424-505: the provider is called whatever the retrieval did; its
\* failure is the only one that reaches the caller
run_prompt_result(searchOk, llmOk) ==
    [llm |-> TRUE, ret |-> IF llmOk THEN "ok" ELSE "raised"]

\* run_prompt with a knowledge_base_id, provider and model found
RunPrompt(k) ==
    /\ Enter
    /\ \E results \in rag_search(k), llmOk \in BOOLEAN :
          LET searchOk == KbExists(k) /\ CollectionExists(kb[k].coll)
              r == run_prompt_result(searchOk, llmOk) IN
          last' = [NoLast EXCEPT !.op = "run_prompt", !.k = k,
                      !.err = IF searchOk THEN NoneVal ELSE "E_search",
                      !.rag = results,
                      !.sent = run_prompt_text(results, "Q"),
                      !.llm = r.llm, !.ret = r.ret]
    /\ UNCHANGED <<kb, content, nextKb, nextContent, collections, collCtr,
                   docs, files, uuidCtr, pc, call, batch, deleted, used, io>>

\* rag_preview (545-608): line 560 awaits what the synchronous
\* get_knowledge_base returned; awaiting a row or None raises TypeError and
\* the handler at 606-608 answers 500, so lines 561-604 are never reached
rag_preview(results, query) == [status |-> 500, text |-> <<>>]

RagPreview(k) ==
    /\ Enter
    /\ last' = [NoLast EXCEPT !.op = "rag_preview", !.k = k,
                   !.ret = "raised",
                   !.err = IF KbExists(k) THEN "E_await" ELSE "E_notfound",
                   !.sent = rag_preview(<<>>, "Q").text]
    /\ UNCHANGED <<kb, content, nextKb, nextContent, collections, collCtr,
                   docs, files, uuidCtr, pc, call, batch, deleted, used, io>>

\* ------------------------------ the prompt builders on their own
\* texts of the fragments a retrieval returns, and the user's text
FragmentTexts == {"a", "b"}

\* a retrieval has returned its fragments in rank order
InitRag ==
    /\ InitStores
    /\ io \in [fn : {"rag"}, stage : {"results"},
                results : SeqsUpTo(FragmentTexts, MaxFragments),
                query : {"Q"}, sent : {<<>>},
                preview : {[status |-> 0, text |-> <<>>]}]

\* run_prompt builds the text it sends
RagRunPrompt ==
    /\ io.fn = "rag"
    /\ io.stage = "results"
    /\ io' = [io EXCEPT !.stage = "run_prompt",
                        !.sent = run_prompt_text(io.results, io.query)]
    /\ UNCHANGED storeVars

\* rag_preview is called for the same results and query
RagPreviewCall ==
    /\ io.fn = "rag"
    /\ io.stage = "run_prompt"
    /\ io' = [io EXCEPT !.stage = "rag_preview",
                        !.preview = rag_preview(io.results, io.query)]
    /\ UNCHANGED storeVars

NextRag == RagRunPrompt \/ RagPreviewCall

SpecRag == InitRag /\ [][NextRag]_vars

\* ------------------------------------- ChromaService.add_documents
\* a metadata value: its Python type and its str()
MetaValues ==
    {[t |-> "str", v |-> "s"], [t |-> "int", v |-> "1"],
     [t |-> "float", v |-> "1.5"], [t |-> "bool", v |-> "True"],
     [t |-> "NoneType", v |-> "None"], [t |-> "list", v |-> "[1]"],
     [t |-> "dict", v |-> "{}"]}

\* metadata maps: the empty one and the maps of one key
MetaMaps == {<<>>} \cup {[key \in {"key"} |-> x] : x \in MetaValues}

\* isinstance(value, (str, int, float, bool)) or value is None
passes_unchanged(value) ==
    value.t \in {"str", "int", "float", "bool", "NoneType"}

\* lines 137-146: safe_metadata of one metadata map
safe_metadata(metadata) ==
    [key \in DOMAIN metadata |->
        IF passes_unchanged(metadata[key]) THEN metadata[key]
        ELSE [t |-> "str", v |-> metadata[key].v]]

\* an add_documents that checks nothing before it calls the store
add_documents_unchecked(documents, metadatas, ids) == FALSE

\* lines 132-133: not documents or not metadatas or not ids
add_documents_rejects(documents, metadatas, ids) ==
    documents = <<>> \/ metadatas = <<>> \/ ids = <<>>

\* collection.add of the vector store: lists of unequal lengths are
\* refused by the store; otherwise the add succeeds or fails as a whole
collection_add(documents, metadatas, ids) ==
    IF Len(documents) # Len(ids) \/ Len(metadatas) # Len(ids)
    THEN {"raised"}
    ELSE {"ok", "raised"}

\* the arguments of a call of add_documents
InitAdd ==
    /\ InitStores
    /\ io \in [fn : {"add"}, stage : {"args"},
                documents : SeqsUpTo({"d"}, MaxBatch),
                metadatas : SeqsUpTo(MetaMaps, MaxBatch),
                ids : SeqsUpTo({"i"}, MaxBatch),
                exists : BOOLEAN,
                reached : {FALSE}, submitted : {<<>>},
                ret : {"none"}, returned : {<<>>}, added : {<<>>}]

\* ChromaService.add_documents (127-173)
AddDocuments ==
    /\ io.fn = "add"
    /\ io.stage = "args"
    /\ LET safe_metadatas ==
               [i \in 1..Len(io.metadatas) |-> safe_metadata(io.metadatas[i])]
       IN
       IF add_documents_rejects(io.documents, io.metadatas, io.ids)
          \/ ~io.exists
       THEN io' = [io EXCEPT !.stage = "done", !.ret = "raised"]
       ELSE \E r \in collection_add(io.documents, safe_metadatas, io.ids) :
               io' = [io EXCEPT
                         !.stage = "done", !.reached = TRUE,
                         !.submitted = safe_metadatas,
                         !.ret = r,
                         !.returned = IF r = "ok" THEN io.ids ELSE <<>>,
                         !.added = IF r = "ok"
                                   THEN [i \in 1..Len(io.ids) |->
                                           [id |-> io.ids[i],
                                            document |-> io.documents[i],
                                            metadata |-> safe_metadatas[i]]]
                                   ELSE <<>>]
    /\ UNCHANGED storeVars

NextAdd == AddDocuments

SpecAdd == InitAdd /\ [][NextAdd]_vars

\* ------------------- FileExtractionService.extract_text_from_files
\* self.supported_extensions
supported_extensions == {"pdf", "docx", "pptx"}

\* a file: its extension, whether reading and parsing it succeeds, and the
\* number of Text and Table elements it is partitioned into
UploadedFiles ==
    {[ext |-> "txt", ok |-> TRUE, elements |-> 0]}
    \cup {[ext |-> "pdf", ok |-> b, elements |-> 0] : b \in BOOLEAN}
    \cup {[ext |-> e, ok |-> FALSE, elements |-> 0] : e \in {"docx", "pptx"}}
    \cup {[ext |-> e, ok |-> TRUE, elements |-> n] :
              e \in {"docx", "pptx"}, n \in 0..MaxElements}

\* lines 24-54: what one iteration of the loop appends for file number i
entries_of(i, file) ==
    IF file.ext \notin supported_extensions
    THEN <<[file |-> i, kind |-> "unsupported", part |-> 0]>>
    ELSE IF ~file.ok
    THEN <<[file |-> i, kind |-> "error", part |-> 0]>>
    ELSE IF file.ext = "pdf"
    THEN <<[file |-> i, kind |-> "text", part |-> 0]>>
    ELSE [j \in 1..file.elements |->
             [file |-> i, kind |-> "element", part |-> j]]

\* the files of a call of extract_text_from_files
InitExtract ==
    /\ InitStores
    /\ io \in [fn : {"extract"}, files : SeqsUpTo(UploadedFiles, MaxFiles),
                next : {1}, extracted_content : {<<>>}, returned : {FALSE}]

\* one iteration of the loop at line 23
ExtractFile ==
    /\ io.fn = "extract"
    /\ ~io.returned
    /\ io.next <= Len(io.files)
    /\ io' = [io EXCEPT
                 !.extracted_content = @ \o entries_of(io.next, io.files[io.next]),
                 !.next = @ + 1]
    /\ UNCHANGED storeVars

\* line 56
ExtractReturn ==
    /\ io.fn = "extract"
    /\ ~io.returned
    /\ io.next > Len(io.files)
    /\ io' = [io EXCEPT !.returned = TRUE]
    /\ UNCHANGED storeVars

NextExtract == ExtractFile \/ ExtractReturn

SpecExtract == InitExtract /\ [][NextExtract]_vars

\* ------------------------------- the output-token budget of a process call
\* api/knowledge_bases.py:258-259, the ceiling of process_single_content
TokenCeiling == 10000
\* api/knowledge_bases.py:255 and the defaults of process_content and
\* _generate_summary
DefaultTokens == 2000
\* api/knowledge_bases.py:215, the budget of process_uploaded_files
BatchTokens == 5000
\* stands for a token count that is absent
NoTokens == 0 - 1

\* a max_summary_tokens a caller can supply; NoTokens when it supplies none
TokenRequests == {NoTokens} \cup {(TokenCeiling * i) \div 4 : i \in 0..MaxTokenUnits}

\* api/knowledge_bases.py:255-259
capped_tokens(requested) ==
    LET max_summary_tokens ==
            IF requested = NoTokens THEN DefaultTokens ELSE requested
    IN IF max_summary_tokens > TokenCeiling THEN TokenCeiling
       ELSE max_summary_tokens

\* api/knowledge_bases.py:266
final_summary(custom_summary, summary) ==
    IF custom_summary # NoneVal THEN custom_summary ELSE summary

\* the arguments process_content is called with from each entry point
process_content_args(entry, requested, custom_summary, summary) ==
    CASE entry = "single" ->
            [custom_summary |-> final_summary(custom_summary, summary),
             max_summary_tokens |-> capped_tokens(requested)]
      [] entry = "batch" ->
            [custom_summary |-> NoneVal, max_summary_tokens |-> BatchTokens]
      [] OTHER ->
            [custom_summary |-> custom_summary,
             max_summary_tokens |->
                 IF requested = NoTokens THEN DefaultTokens ELSE requested]

\* knowledge_base_service.py:259-264 and 442-443, 469-476: the max_tokens
\* of the generation call, NoTokens when the call is not made
generation_max_tokens(args, extracted_text) ==
    IF ~Falsy(args.custom_summary) THEN NoTokens
    ELSE IF Falsy(extracted_text) THEN NoTokens
    ELSE args.max_summary_tokens

\* a process invocation: its entry point and what the caller supplies
InitRequest ==
    /\ InitStores
    /\ io \in [fn : {"process"}, stage : {"request"},
                entry : {"single", "batch", "direct"},
                requested : TokenRequests,
                custom_summary : CustomInputs,
                summary : {NoneVal, "Y"},
                extracted_text : ExtractOutputs,
                args : {[custom_summary |-> NoneVal,
                         max_summary_tokens |-> 0]},
                max_tokens : {NoTokens}]
    /\ io.entry = "batch"
          => /\ io.requested = NoTokens
             /\ io.custom_summary = NoneVal
    /\ io.entry # "single" => io.summary = NoneVal

\* the entry point calls process_content
RequestProcess ==
    /\ io.fn = "process"
    /\ io.stage = "request"
    /\ io' = [io EXCEPT
                 !.stage = "service",
                 !.args = process_content_args(io.entry, io.requested,
                                               io.custom_summary, io.summary)]
    /\ UNCHANGED storeVars

\* process_content reaches its summary step
RequestSummary ==
    /\ io.fn = "process"
    /\ io.stage = "service"
    /\ io' = [io EXCEPT
                 !.stage = "done",
                 !.max_tokens = generation_max_tokens(io.args,
                                                      io.extracted_text)]
    /\ UNCHANGED storeVars

NextRequest == RequestProcess \/ RequestSummary

SpecRequest == InitRequest /\ [][NextRequest]_vars

Next ==
    \/ CreateKnowledgeBase
    \/ \E k \in KbIds, kinds \in {<<"image">>, <<"document">>,
                                  <<"document", "image">>} : UploadFiles(k, kinds)
    \/ \E k \in KbIds, t \in TextInputs : AddTextContent(k, t)
    \/ \E c \in ContentIds, s \in CustomInputs, ok \in BOOLEAN :
          ProcessContent(c, s, ok)
    \/ ProcessExtract
    \/ ProcessSummarize
    \/ ProcessIndex
    \/ ProcessCommit
    \/ ProcessFail
    \/ \E c \in ContentIds, s \in SummaryInputs : UpdateContentSummary(c, s)
    \/ UpdateDelete
    \/ UpdateAdd
    \/ UpdateCommit
    \/ \E c \in ContentIds : DeleteContent(c)
    \/ DeleteFile
    \/ DeleteRow
    \/ \E k \in KbIds : DeleteKnowledgeBase(k)
    \/ DeleteKbFiles
    \/ DeleteKbRow
    \/ \E name \in CollNames, n \in NResults : SearchDocuments(name, n)
    \/ \E k \in KbIds, n \in NResults : SearchKnowledgeBase(k, n)
    \/ \E name \in CollNames : CreateCollection(name)
    \/ \E k \in KbIds, ok \in BOOLEAN : BatchBegin(k, ok)
    \/ BatchNext
    \/ BatchEnd
    \/ \E k \in KbIds : RunPrompt(k)
    \/ \E k \in KbIds : RagPreview(k)

Spec == Init /\ [][Next]_vars

\* ------------------------------ a crash between the vector add and the commit
\* The vector store has taken the document (line 271) and the session has
\* not committed (line 282): the server process dies, the session's
\* assignments are lost, the row keeps what the commit at 246 wrote.  The
\* entries left behind are remembered in io.
InitCrash ==
    /\ InitStores
    /\ io = [fn |-> "crash", left |-> {}]

CrashBeforeCommit ==
    /\ io.fn = "crash"
    /\ pc = "p_commit"
    /\ io' = [io EXCEPT !.left = @ \cup
                 {[c |-> call.c, coll |-> kb[call.k].coll,
                   id |-> call.obj.docid, old |-> call.old]}]
    /\ last' = [NoLast EXCEPT !.op = "crash", !.c = call.c, !.k = call.k,
                              !.old = call.old, !.from = call.from,
                              !.ids = {call.obj.docid}]
    /\ pc' = "idle"
    /\ call' = NoCall
    /\ batch' = NoBatch
    /\ UNCHANGED <<kb, content, nextKb, nextContent, collections, collCtr,
                   docs, files, uuidCtr, deleted, used, ops>>

NextCrash ==
    \/ CreateKnowledgeBase
    \/ \E k \in KbIds : UploadFiles(k, <<"document">>)
    \/ \E k \in KbIds : AddTextContent(k, "txt")
    \/ \E c \in ContentIds, s \in CustomInputs, ok \in BOOLEAN :
          ProcessContent(c, s, ok)
    \/ ProcessExtract
    \/ ProcessSummarize
    \/ ProcessIndex
    \/ ProcessCommit
    \/ ProcessFail
    \/ CrashBeforeCommit
    \/ \E c \in ContentIds : DeleteContent(c)
    \/ DeleteFile
    \/ DeleteRow
    \/ \E k \in KbIds, n \in NResults : SearchKnowledgeBase(k, n)
    \/ \E k \in KbIds, ok \in BOOLEAN : BatchBegin(k, ok)
    \/ BatchNext
    \/ BatchEnd

SpecCrash == InitCrash /\ [][NextCrash]_vars

\* ----------------------------------- process_content calls in flight together
\* Each request has its own session and runs as a task of the event loop.
\* A task gives the loop up only where it awaits something that suspends:
\* the provider call of _generate_summary (openai_service.py:155,
\* groq_service.py:148).  _extract_text_from_file and _add_to_chroma are
\* awaited but never suspend, so they run within the task's turn.  The
\* task holds the attributes it loaded (obj) across the suspension and its
\* commit writes the attributes it has set (dirty).
Tasks == 1..MaxTasks

NoTask == [pc |-> "idle", c |-> 0, custom |-> NoneVal, provOK |-> FALSE,
           obj |-> NoRow, dirty |-> {}, err |-> NoneVal, ret |-> "none",
           id |-> NoDoc, overlap |-> FALSE]

InitTasks ==
    /\ InitStores
    /\ io = [fn |-> "tasks", running |-> 0, task |-> [p \in Tasks |-> NoTask]]

\* the tasks between their first commit and their return
InFlight(c) ==
    {p \in Tasks : io.task[p].c = c /\ io.task[p].pc \notin {"idle", "done"}}

\* checks that also refuse a record another call is processing
start_checks_exclusive(row, provOK) ==
    row # NoRow /\ provOK /\ row.status # "processing"

\* lines 225-242: the checks before the status is set
start_checks(row, provOK) == row # NoRow /\ provOK

\* a request that is served while no task holds the loop
Served(A) == io.fn = "tasks" /\ io.running = 0 /\ A

\* lines 218-246
TaskStart(p, c, custom, provOK) ==
    /\ io.fn = "tasks"
    /\ io.running = 0
    /\ io.task[p].pc = "idle"
    /\ Idle
    /\ ops < MaxOps
    /\ ops' = ops + 1
    /\ IF ~start_checks(content[c], provOK)
       THEN /\ io' = [io EXCEPT !.task[p] =
                        [NoTask EXCEPT !.pc = "done", !.c = c,
                                       !.custom = custom, !.provOK = provOK,
                                       !.ret = "raised"]]
            /\ UNCHANGED content
       ELSE /\ content' = [content EXCEPT ![c].status = "processing"]
            /\ io' = [io EXCEPT
                        !.running = p,
                        !.task[p] =
                            [NoTask EXCEPT !.pc = "extract", !.c = c,
                                           !.custom = custom,
                                           !.provOK = provOK,
                                           !.obj = content'[c],
                                           !.overlap = InFlight(c) # {}]]
    /\ UNCHANGED <<kb, nextKb, nextContent, collections, collCtr, docs, files,
                   uuidCtr, pc, call, batch, last, deleted, used>>

\* lines 249-256
TaskExtract(p) ==
    /\ io.fn = "tasks"
    /\ io.running = p
    /\ io.task[p].pc = "extract"
    /\ LET o == io.task[p].obj IN
       IF o.ctype \in {"document", "image"} /\ Falsy(o.text)
       THEN \E x \in extract_text_from_file(o.ctype) :
               io' = [io EXCEPT !.task[p].obj.text = x,
                                !.task[p].dirty = @ \cup {"text"},
                                !.task[p].pc = "summarize"]
       ELSE IF o.ctype = "text" /\ Falsy(o.text)
       THEN io' = [io EXCEPT !.task[p].err = "E_text",
                             !.task[p].pc = "fail"]
       ELSE io' = [io EXCEPT !.task[p].pc = "summarize"]
    /\ UNCHANGED storeVars

\* lines 258-264 up to the provider call, where the task is suspended
TaskSummarize(p) ==
    /\ io.fn = "tasks"
    /\ io.running = p
    /\ io.task[p].pc = "summarize"
    /\ IF ~Falsy(io.task[p].custom)
       THEN io' = [io EXCEPT !.task[p].obj.summary = io.task[p].custom,
                             !.task[p].dirty = @ \cup {"summary"},
                             !.task[p].pc = "index"]
       ELSE IF Falsy(io.task[p].obj.text)
       THEN io' = [io EXCEPT !.task[p].obj.summary = "nosum",
                             !.task[p].dirty = @ \cup {"summary"},
                             !.task[p].pc = "index"]
       ELSE io' = [io EXCEPT !.task[p].pc = "awaits", !.running = 0]
    /\ UNCHANGED storeVars

\* the provider call returns or raises and the task is resumed (264-265)
TaskResume(p) ==
    /\ io.fn = "tasks"
    /\ io.running = 0
    /\ io.task[p].pc = "awaits"
    /\ \/ \E x \in LlmOutputs :
             io' = [io EXCEPT !.running = p,
                              !.task[p].obj.summary = x,
                              !.task[p].dirty = @ \cup {"summary"},
                              !.task[p].pc = "index"]
       \/ io' = [io EXCEPT !.running = p,
                           !.task[p].err = "E_summary",
                           !.task[p].pc = "fail"]
    /\ UNCHANGED storeVars

\* lines 268-280 with _add_to_chroma (483-535)
TaskIndex(p) ==
    /\ io.fn = "tasks"
    /\ io.running = p
    /\ io.task[p].pc = "index"
    /\ LET o == io.task[p].obj
           name == kb[o.kb].coll
           id == NewDocId(io.task[p].c, o.docid, uuidCtr) IN
       IF Falsy(document_text(o))
       THEN /\ io' = [io EXCEPT !.task[p].err = "E_index",
                                !.task[p].pc = "fail"]
            /\ UNCHANGED <<collections, collCtr, docs, uuidCtr, used>>
       ELSE /\ collections' = ensure_collection(collections, name, collCtr)
            /\ collCtr' = IF CollectionExists(name) THEN collCtr ELSE collCtr + 1
            /\ \/ /\ docs' = docs \cup {[coll |-> name, id |-> id,
                                         text |-> document_text(o)]}
                  /\ used' = used \cup {id}
                  /\ uuidCtr' = uuidCtr + 1
                  /\ io' = [io EXCEPT
                              !.task[p].obj.docid = id,
                              !.task[p].obj.status = "completed",
                              !.task[p].dirty = @ \cup {"docid", "status"},
                              !.task[p].id = id,
                              !.task[p].pc = "commit"]
               \/ /\ io' = [io EXCEPT !.task[p].err = "E_index",
                                      !.task[p].pc = "fail"]
                  /\ UNCHANGED <<docs, uuidCtr, used>>
    /\ UNCHANGED <<kb, content, nextKb, nextContent, files, pc, call, batch,
                   last, deleted, ops>>

\* lines 282-284
TaskCommit(p) ==
    /\ io.fn = "tasks"
    /\ io.running = p
    /\ io.task[p].pc = "commit"
    /\ content' = [content EXCEPT ![io.task[p].c] =
                       Commit(@, io.task[p].obj, io.task[p].dirty)]
    /\ io' = [io EXCEPT !.running = 0, !.task[p].pc = "done",
                        !.task[p].ret = "true"]
    /\ UNCHANGED <<kb, nextKb, nextContent, collections, collCtr, docs, files,
                   uuidCtr, pc, call, batch, last, deleted, used, ops>>

\* lines 286-295
TaskFail(p) ==
    /\ io.fn = "tasks"
    /\ io.running = p
    /\ io.task[p].pc = "fail"
    /\ content' = [content EXCEPT ![io.task[p].c] =
           Commit(@, MarkFailed(io.task[p].obj, io.task[p].err),
                  io.task[p].dirty \cup {"status", "error"})]
    /\ io' = [io EXCEPT !.running = 0, !.task[p].pc = "done",
                        !.task[p].ret = "raised"]
    /\ UNCHANGED <<kb, nextKb, nextContent, collections, collCtr, docs, files,
                   uuidCtr, pc, call, batch, last, deleted, used, ops>>

NextTasks ==
    \/ Served(CreateKnowledgeBase)
    \/ \E k \in KbIds : Served(UploadFiles(k, <<"document">>))
    \/ \E k \in KbIds : Served(AddTextContent(k, "txt"))
    \/ \E p \in Tasks, c \in ContentIds, s \in CustomInputs, ok \in BOOLEAN :
          TaskStart(p, c, s, ok)
    \/ \E p \in Tasks : TaskExtract(p)
    \/ \E p \in Tasks : TaskSummarize(p)
    \/ \E p \in Tasks : TaskResume(p)
    \/ \E p \in Tasks : TaskIndex(p)
    \/ \E p \in Tasks : TaskCommit(p)
    \/ \E p \in Tasks : TaskFail(p)

SpecTasks == InitTasks /\ [][NextTasks]_vars

\* the calls that create, update and delete knowledge bases and that
\* process, re-summarize and delete their records
NextNames ==
    \/ CreateKnowledgeBase
    \/ \E k \in KbIds, kw \in UpdateKwargs : UpdateKnowledgeBase(k, kw)
    \/ \E k \in KbIds : UploadFiles(k, <<"document">>)
    \/ \E k \in KbIds : AddTextContent(k, "txt")
    \/ \E c \in ContentIds, s \in CustomInputs, ok \in BOOLEAN :
          ProcessContent(c, s, ok)
    \/ ProcessExtract
    \/ ProcessSummarize
    \/ ProcessIndex
    \/ ProcessCommit
    \/ ProcessFail
    \/ \E c \in ContentIds, s \in SummaryInputs : UpdateContentSummary(c, s)
    \/ UpdateDelete
    \/ UpdateAdd
    \/ UpdateCommit
    \/ \E c \in ContentIds : DeleteContent(c)
    \/ DeleteFile
    \/ DeleteRow
    \/ \E k \in KbIds : DeleteKnowledgeBase(k)
    \/ DeleteKbFiles
    \/ DeleteKbRow

SpecNames == Init /\ [][NextNames]_vars

\* the stores after create_knowledge_base, upload_files of one image,
\* process_content with a custom summary and a delete_knowledge_base whose
\* rmtree raised: the collection is gone, the rows were rolled back; two
\* more calls are followed
InitInconsistent ==
    /\ kb = [k \in KbIds |-> IF k = 1 THEN KbRow(1) ELSE NoRow]
    /\ content = [c \in ContentIds |->
          IF c = 1
          THEN [ContentRow(1, "image", "img", TRUE) EXCEPT
                   !.summary = "X", !.status = "completed",
                   !.docid = <<1, 1>>]
          ELSE NoRow]
    /\ nextKb = 2
    /\ nextContent = 2
    /\ collections = {}
    /\ collCtr = 1
    /\ docs = {}
    /\ files = {1}
    /\ uuidCtr = 1
    /\ pc = "idle"
    /\ call = NoCall
    /\ batch = NoBatch
    /\ last = [NoLast EXCEPT !.op = "delete_kb", !.k = 1, !.ret = "raised",
                             !.name = 1, !.ids = {<<1, 1>>}]
    /\ deleted = {}
    /\ used = {<<1, 1>>}
    /\ ops = MaxOps - 2
    /\ io = NoIo

\* the calls that can follow on such stores
SpecInconsistent == InitInconsistent /\ [][Next]_vars

\* the status code the endpoint of a call answers with for the outcome of
\* the service (api/knowledge_bases.py, api/prompts.py); 0 where the call
\* is made on the gateway and has no endpoint
HttpStatus(l) ==
    CASE l.op = "create_kb" -> IF l.ret = "ok" THEN 201 ELSE 400
      [] l.op \in {"upload", "add_text", "search_kb"}
            -> IF l.ret = "ok" THEN 200 ELSE 400
      [] l.op = "process" -> IF l.ret = "true" THEN 200 ELSE 400
      [] l.op = "batch" -> 200
      [] l.op \in {"update", "delete", "delete_kb"}
            -> IF l.ret = "true" THEN 200
               ELSE IF l.ret = "false" THEN 404 ELSE 400
      [] l.op = "run_prompt" -> IF l.ret = "ok" THEN 200 ELSE 500
      [] l.op = "rag_preview" -> rag_preview(l.rag, "Q").status
      [] OTHER -> 0

\* api/knowledge_bases.py get_knowledge_base (59-77): 404 for an absent row
get_knowledge_base(k) == IF KbExists(k) THEN "ok" ELSE "NotFound"

\* ------------------------------------------------------------ properties

\* the collection of the knowledge base a content row belongs to
CollOf(c) == kb[content[c].kb].coll

\* a step of update_content_summary
UpdateStep ==
    \/ call.op = "update"
    \/ call'.op = "update"
    \/ (ops' = ops + 1 /\ last'.op = "update")

\* status changes the specification allows
SpecTransition(a, b, from) ==
    \/ a = b
    \/ a = "pending" /\ b = "processing"
    \/ a = "completed" /\ b = "processing"
    \/ a = "processing" /\ b = "completed"
    \/ a = "processing" /\ b = "failed" /\ from = "pending"

\* status changes of process_content
CodeTransition(a, b) ==
    \/ a = b
    \/ a \in {"pending", "completed", "failed"} /\ b = "processing"
    \/ a = "processing" /\ b \in {"completed", "failed"}

\* C1 as stated: a record starts 'pending' and its status only moves
\* pending -> processing -> {completed, failed} or
\* completed -> processing -> completed.
C1_OnlySpecTransitions ==
    [][\A c \in ContentIds :
          /\ (~Exists(c) /\ Exists(c)') => content'[c].status = "pending"
          /\ (Exists(c) /\ Exists(c)')
             => SpecTransition(content[c].status, content'[c].status,
                               call.from)]_vars

\* C1 as amended: a record starts 'pending'; process_content moves it from
\* pending, completed or failed to processing and from processing to
\* completed or failed, whatever it was before; update_content_summary
\* never changes the status.
C1_OnlyCodeTransitions ==
    [][\A c \in ContentIds :
          /\ (~Exists(c) /\ Exists(c)') => content'[c].status = "pending"
          /\ (Exists(c) /\ Exists(c)')
             => /\ CodeTransition(content[c].status, content'[c].status)
                /\ UpdateStep => content'[c].status = content[c].status]_vars

\* a completed record was processed again and ended 'failed'
C1_Witness ==
    /\ last.op = "process"
    /\ last.from = "completed"
    /\ last.ret = "raised"
    /\ Exists(last.c)
    /\ content[last.c].status = "failed"

\* C2 as stated: between calls, a completed record has a vector id and the
\* id resolves in its knowledge base's collection to the record's summary.
C2_CompletedResolvesToSummary ==
    Idle =>
       \A c \in ContentIds :
          (Exists(c) /\ content[c].status = "completed")
          => /\ content[c].docid # NoDoc
             /\ \E d \in DocsOf(CollOf(c)) :
                   d.id = content[c].docid /\ d.text = content[c].summary

\* C3 as stated: between calls, a record has a vector id exactly when it is
\* completed and the id resolves.
C3_VectorIdIffCompleted ==
    Idle =>
       \A c \in ContentIds :
          Exists(c)
          => (content[c].docid # NoDoc
              <=> (content[c].status = "completed"
                   /\ Resolves(CollOf(c), content[c].docid)))

\* C4: when delete_content removes the file or the row of a completed
\* record, the record's vector entry is already gone; and once
\* delete_content has returned true no search of the collection can return
\* the id the record had.
C4_DeleteVectorFirst ==
    /\ [][(call.op = "delete" /\ call.from = "completed"
           /\ (files' # files \/ content' # content))
          => ~Resolves(kb[call.k].coll, call.old)]_vars
    /\ [](\A x \in deleted :
            /\ \A n \in NResults : \A S \in QueryResults(x[1], n) :
                  x[2] \notin {d.id : d \in S}
            /\ (last.op \in {"search", "search_kb"} /\ last.name = x[1])
               => x[2] \notin last.ids)

\* delete_content returned true for a completed record while other
\* documents stay in the collection
C4_Witness ==
    /\ last.op = "delete"
    /\ last.ret = "true"
    /\ last.from = "completed"
    /\ last.old # NoDoc
    /\ KbExists(last.k)
    /\ DocsOf(kb[last.k].coll) # {}

\* C5: when update_content_summary returns true for a record that had a
\* vector id, the record's id is another one, the old id resolves no more
\* and the new one does; and no document is ever added under an id that
\* was used before.
C5_ResummarizeNewId ==
    /\ [][(pc = "u_commit" /\ pc' = "idle")
          => /\ content'[call.c].docid # call.old
             /\ \A d \in docs' :
                   ~(d.coll = kb[call.k].coll /\ d.id = call.old)
             /\ \E d \in docs' :
                   d.coll = kb[call.k].coll /\ d.id = content'[call.c].docid]_vars
    /\ [][\A d \in docs' \ docs : d.id \notin used]_vars

\* update_content_summary returned true for a completed record
C5_Witness ==
    /\ last.op = "update"
    /\ last.ret = "true"
    /\ last.old # NoDoc
    /\ Exists(last.c)
    /\ content[last.c].status = "completed"
    /\ content[last.c].docid # last.old

\* C6 as stated: a search of a collection that is empty or was never
\* created returns no results, total 0, and raises nothing.
C6_SearchOfNothingIsEmpty ==
    (/\ last.op \in {"search", "search_kb"}
     /\ last.err # "E_notfound"
     /\ DocsOf(last.name) = {})
    => /\ last.ret = "ok"
       /\ last.ids = {}
       /\ last.total = 0

\* C7: when the batch returns, its result has one entry per record that
\* was pending, in the order they were taken; a record that raised is
\* listed 'failed' with its error (its row is 'failed', or still 'pending'
\* when the provider or model was refused before the work began) and
\* every other one is listed 'completed' and is completed.
C7_BatchIsolatesFailure ==
    (last.op = "batch" /\ last.ret = "ok")
    => /\ Len(last.results) = Len(last.all)
       /\ \A i \in 1..Len(last.all) :
            LET r == last.results[i] IN
            /\ r.c = last.all[i]
            /\ r.status \in {"completed", "failed"}
            /\ r.status = "failed"
               => /\ r.error # NoneVal
                  /\ Exists(r.c)
                  /\ content[r.c].status \in {"failed", "pending"}
            /\ r.status = "completed"
               => /\ r.error = NoneVal
                  /\ Exists(r.c)
                  /\ content[r.c].status = "completed"
                  /\ Resolves(CollOf(r.c), content[r.c].docid)

\* a batch in which a record failed and a later one was completed
C7_Witness ==
    /\ last.op = "batch"
    /\ last.ret = "ok"
    /\ \E i, j \in 1..Len(last.results) :
          /\ i < j
          /\ last.results[i].status = "failed"
          /\ content[last.results[i].c].status = "failed"
          /\ last.results[j].status = "completed"

\* C8: create_collection on a name that already has a collection raises no
\* error, returns that collection, creates no other one and leaves the
\* documents of the store as they are; two calls in a row with one name
\* return the same collection.
C8_CreateCollectionIdempotent ==
    [][(ops' = ops + 1 /\ last'.op = "create_collection")
       => /\ last'.ret = "ok"
          /\ CollectionExists(last'.name)
             => /\ collections' = collections
                /\ docs' = docs
                /\ last'.handle = get_collection(collections, last'.name).uid
          /\ (last.op = "create_collection" /\ last.name = last'.name)
             => last'.handle = last.handle]_vars

\* a second create_collection met the collection with documents in it
C8_Witness ==
    /\ last.op = "create_collection"
    /\ last.existed
    /\ DocsOf(last.name) # {}

\* C9: delete_knowledge_base removes the row, and the content rows with
\* it, only after the collection is gone; once it has returned true the
\* vector entries of the completed records are gone and a fetch of the
\* knowledge base by id reports NotFound.
C9_DeleteCollectionFirst ==
    /\ [][\A k \in KbIds :
            (KbExists(k) /\ ~KbExists(k)')
            => /\ ~CollectionExists(kb[k].coll)
               /\ DocsOf(kb[k].coll) = {}
               /\ \A c \in ContentIds :
                     (Exists(c) /\ content[c].kb = k) => ~Exists(c)']_vars
    /\ []((last.op = "delete_kb" /\ last.ret = "true")
          => /\ get_knowledge_base(last.k) = "NotFound"
             /\ ~CollectionExists(last.name)
             /\ \A id \in last.ids : \A d \in docs : d.id # id
             /\ \A c \in ContentIds : Exists(c) => content[c].kb # last.k)

\* delete_knowledge_base returned true for a knowledge base that had
\* completed records
C9_Witness ==
    /\ last.op = "delete_kb"
    /\ last.ret = "true"
    /\ last.ids # {}

C11_FailureKeepsPartialWork ==
    [][/\ (call.op = "process" /\ last'.op = "process"
           /\ last'.ret = "raised")
          => pc = "p_fail"
       /\ (pc = "p_fail" /\ pc' = "idle")
          => /\ call.err # NoneVal
             /\ content'[call.c].status = "failed"
             /\ content'[call.c].error = call.err
             /\ content'[call.c].text = call.obj.text
             /\ content'[call.c].summary = call.obj.summary
             /\ last'.op = "process"
             /\ last'.ret = "raised"
             /\ last'.err = call.err]_vars

\* the generative model failed after the text of a file had been extracted
C11_Witness ==
    /\ last.op = "process"
    /\ last.ret = "raised"
    /\ last.err = "E_summary"
    /\ last.extracted
    /\ Exists(last.c)
    /\ content[last.c].status = "failed"
    /\ content[last.c].error = "E_summary"
    /\ ~Falsy(content[last.c].text)

\* C12: when run_prompt is given a knowledge base that is absent or whose
\* collection is missing or empty, it holds no retrieval results, it calls
\* the generative model all the same, and the text it sends is the user's
\* text as it was given.
C12_RunPromptUngrounded ==
    (/\ last.op = "run_prompt"
     /\ \/ ~KbExists(last.k)
        \/ ~CollectionExists(kb[last.k].coll)
        \/ DocsOf(kb[last.k].coll) = {})
    => /\ last.rag = <<>>
       /\ last.llm
       /\ last.sent = <<"Q">>

\* run_prompt answered for a knowledge base whose collection is missing
C12_Witness ==
    /\ last.op = "run_prompt"
    /\ last.ret = "ok"
    /\ KbExists(last.k)
    /\ ~CollectionExists(kb[last.k].coll)
    /\ last.sent = <<"Q">>

\* the context blocks 1..m as the specification words them
RECURSIVE ExpectedContext(_, _)
ExpectedContext(results, m) ==
    IF m = 0 THEN <<>>
    ELSE ExpectedContext(results, m - 1)
         \o (IF m > 1 THEN <<"\n\n">> ELSE <<>>)
         \o <<"Context ", Digits[m], ":\n", results[m]>>

\* the augmented prompt for fragments in rank order and a query
ExpectedPrompt(results, query) ==
    <<"Based on the following context information:", "\n\n">>
    \o ExpectedContext(results, IF Len(results) < 5 THEN Len(results) ELSE 5)
    \o <<"\n\n", "Question: ", query, "\n\n",
         "Please answer the question using the provided context. If the context doesn't contain enough information to answer the question, please say so.">>

\* run_prompt sends the augmented prompt for one fragment or more
RunPromptBuildsTemplate ==
    (io.fn = "rag" /\ io.stage # "results" /\ io.results # <<>>)
    => io.sent = ExpectedPrompt(io.results, io.query)

\* C13 as stated: for fragments r1..rn, n >= 1, run_prompt and rag_preview
\* both build the prompt made of the blocks 'Context i:' and text(ri) for
\* i up to min(n, 5), the question and the instruction, and they build the
\* same text.
C13_SameAugmentedPrompt ==
    /\ RunPromptBuildsTemplate
    /\ (io.fn = "rag" /\ io.stage = "rag_preview" /\ io.results # <<>>)
       => /\ io.preview.status = 200
          /\ io.preview.text = io.sent

\* the stores InitInconsistent starts from
ReachedInconsistent ==
    /\ Idle
    /\ kb = [k \in KbIds |-> IF k = 1 THEN KbRow(1) ELSE NoRow]
    /\ content[1] = [ContentRow(1, "image", "img", TRUE) EXCEPT
                        !.summary = "X", !.status = "completed",
                        !.docid = <<1, 1>>]
    /\ content[2] = NoRow
    /\ collections = {}
    /\ docs = {}
    /\ files = {1}
    /\ last.op = "delete_kb"
    /\ last.ret = "raised"

\* C14 as stated: a delete_content, update_content_summary or
\* delete_knowledge_base call that finds the collection of its knowledge
\* base missing goes on and returns true.
C14_MissingVectorSideTolerated ==
    (/\ last.op \in {"delete", "update", "delete_kb"}
     /\ last.err = "E_collection")
    => last.ret = "true"

\* C15 as stated: a call addressed to an absent knowledge base or content
\* record is answered with 404 and changes nothing in the stores; a fetch
\* of an absent knowledge base reports NotFound.
C15_AbsentTargetIsNotFound ==
    /\ [](last.err = "E_notfound" => HttpStatus(last) = 404)
    /\ [](\A k \in KbIds : ~KbExists(k) => get_knowledge_base(k) = "NotFound")
    /\ [][(last'.err = "E_notfound" /\ ops' = ops + 1)
          => UNCHANGED <<kb, content, collections, docs, files>>]_vars

\* the three lists have one length, and it is not zero
EqualNonEmpty ==
    /\ Len(io.documents) = Len(io.ids)
    /\ Len(io.metadatas) = Len(io.ids)
    /\ Len(io.ids) > 0

C17_SubmittedMetadataPrimitive ==
    (io.fn = "add" /\ io.stage = "done" /\ io.reached)
    => /\ Len(io.submitted) = Len(io.metadatas)
       /\ \A i \in 1..Len(io.metadatas) :
            /\ DOMAIN io.submitted[i] = DOMAIN io.metadatas[i]
            /\ \A key \in DOMAIN io.metadatas[i] :
                 LET given == io.metadatas[i][key]
                     sent == io.submitted[i][key] IN
                 /\ sent.t \in {"str", "int", "float", "bool"}
                 /\ given.t \in {"str", "int", "float", "bool"}
                    => sent = given
                 /\ given.t \notin {"str", "int", "float", "bool"}
                    => sent = [t |-> "str", v |-> given.v]

\* C18 as stated: the list extract_text_from_files returns has one entry
\* per file, in the order of the files, and the entry of a file is its
\* whole text or an error or unsupported marker.
C18_OneEntryPerFile ==
    (io.fn = "extract" /\ io.returned)
    => /\ Len(io.extracted_content) = Len(io.files)
       /\ \A i \in 1..Len(io.files) :
            LET e == io.extracted_content[i] IN
            /\ e.file = i
            /\ e.kind = "element" => io.files[i].elements = 1

\* C19 as stated: whichever way process_content is invoked, the
\* max_tokens of the generation call is at most 10000 whatever the caller
\* asked for, and is 2000 when the caller supplied no budget.
C19_BudgetCappedAndDefaulted ==
    (io.fn = "process" /\ io.stage = "done" /\ io.max_tokens # NoTokens)
    => /\ io.max_tokens <= TokenCeiling
       /\ io.requested = NoTokens => io.max_tokens = DefaultTokens

\* C20 as stated: when process_content returns true and was given a
\* summary override, whatever its value, the summarization call was not
\* made and the record's summary and its vector entry's text are the
\* override; with no override and a text to summarize the call was made.
C20_OverrideUsedVerbatim ==
    (last.op = "process" /\ last.ret = "true")
    => /\ last.custom # NoneVal
          => /\ ~last.llm
             /\ content[last.c].summary = last.custom
             /\ \E d \in DocsOf(CollOf(last.c)) :
                   d.id = content[last.c].docid /\ d.text = last.custom
       /\ (last.custom = NoneVal /\ ~Falsy(content[last.c].text))
          => last.llm

\* C21: a knowledge base keeps the collection name create_knowledge_base
\* gave it through every update_knowledge_base, process_content,
\* update_content_summary, delete_content and delete_knowledge_base call,
\* and no two knowledge bases hold the same collection name.
C21_CollectionNameFixedAndUnique ==
    /\ [](\A k1, k2 \in KbIds :
            (KbExists(k1) /\ KbExists(k2) /\ k1 # k2)
            => kb[k1].coll # kb[k2].coll)
    /\ [][\A k \in KbIds :
            (KbExists(k) /\ kb'[k] # NoRow) => kb'[k].coll = kb[k].coll]_vars

\* a knowledge base was updated while another one exists
C21_Witness ==
    /\ last.op = "update_kb"
    /\ last.ret = "ok"
    /\ ~kb[last.k].is_active
    /\ \E k \in KbIds : k # last.k /\ KbExists(k)

\* documents of the vector store that were added for content record c
EntriesOf(c) == {d \in docs : d.id[1] = c}

\* the tasks that have returned true for content record c
Returned(c) == {p \in Tasks : io.task[p].c = c /\ io.task[p].ret = "true"}

\* C22: process_content calls on one record are not mutually excluded: a
\* call that starts on an existing record with a valid provider sets the
\* record to 'processing' and goes on, whatever the status was and whoever
\* is in flight; and when several calls on one record have returned true
\* the collection holds a separate entry for each of them while the record
\* names one of these entries.
C22_NoMutualExclusion ==
    /\ [][\A p \in Tasks :
            (/\ io.task[p].pc = "idle"
             /\ io'.task[p].pc # "idle"
             /\ content[io'.task[p].c] # NoRow
             /\ io'.task[p].provOK)
            => /\ io'.task[p].pc # "done"
               /\ content'[io'.task[p].c].status = "processing"]_vars
    /\ [](\A c \in ContentIds :
            Returned(c) # {}
            => /\ \A p, q \in Returned(c) :
                    p # q => io.task[p].id # io.task[q].id
               /\ {io.task[p].id : p \in Returned(c)}
                     \subseteq {d.id : d \in EntriesOf(c)}
               /\ content[c].docid \in {io.task[p].id : p \in Returned(c)})

\* two calls on one pending record were in flight together, both returned
\* true, the collection holds two entries for the record and the record
\* names one of them
C22_Witness ==
    /\ io.fn = "tasks"
    /\ \E p, q \in Tasks :
          /\ p # q
          /\ io.task[p].c = io.task[q].c
          /\ io.task[p].ret = "true"
          /\ io.task[q].ret = "true"
          /\ io.task[q].overlap
          /\ Cardinality(EntriesOf(io.task[p].c)) = 2
          /\ content[io.task[p].c].status = "completed"
          /\ content[io.task[p].c].docid = io.task[q].id
          /\ Resolves(kb[content[io.task[p].c].kb].coll, io.task[p].id)

\* the record of a crashed call is as the crash left it: 'processing',
\* naming the vector id it named before the call, its new entry in place
LeftBehind(o) ==
    /\ Exists(o.c)
    /\ content[o.c].status = "processing"
    /\ content[o.c].docid = o.old
    /\ Resolves(o.coll, o.id)

\* a step of a call a client makes on content record c itself
CallOn(c) ==
    /\ ~batch.active
    /\ ~batch'.active
    /\ \/ call.op # "none" /\ call.c = c
       \/ call'.op # "none" /\ call'.c = c
       \/ last'.op \in {"process", "delete"} /\ last'.c = c

\* C23: when process_content crashes after the vector add and before the
\* final commit, the record is left 'processing' with the vector id it had
\* before (none for a first processing) while the new entry is in the
\* collection; and it stays so through every step that is not a call on
\* that very record: searches, calls on other records and the batch
\* processing of the knowledge base do not repair it.
C23_CrashLeavesIndexedProcessing ==
    /\ [](last.op = "crash"
          => \E o \in io.left :
                /\ o.c = last.c
                /\ o.id \in last.ids
                /\ o.old = last.old
                /\ LeftBehind(o))
    /\ [][\A o \in io.left :
            (LeftBehind(o) /\ ~CallOn(o.c)) => LeftBehind(o)']_vars

\* a search returns the entry of a record that a crash left 'processing'
\* without a vector id
C23_Witness ==
    /\ io.fn = "crash"
    /\ last.op = "search_kb"
    /\ last.ret = "ok"
    /\ \E o \in io.left :
          /\ o.old = NoDoc
          /\ LeftBehind(o)
          /\ content[o.c].docid = NoDoc
          /\ o.id \in last.ids

\* C24 as stated: when process_uploaded_files has returned, every record
\* its result lists as 'failed' has status 'failed' and an error message,
\* every record it lists as 'completed' has status 'completed', and no
\* record that was pending at the start is still 'pending' or
\* 'processing'.
C24_BatchFailureRecorded ==
    (last.op = "batch" /\ last.ret = "ok")
    => /\ \A i \in 1..Len(last.results) :
            LET r == last.results[i] IN
            /\ r.status = "failed"
                  => /\ content[r.c].status = "failed"
                     /\ content[r.c].error # NoneVal
            /\ r.status = "completed"
                  => content[r.c].status = "completed"
       /\ \A i \in 1..Len(last.all) :
            content[last.all[i]].status \notin {"pending", "processing"}

C26_RejectedLeavesStores ==
    [][(pc = "idle" /\ last'.op = "process" /\ last'.ret = "raised")
       => /\ last'.err \in {"E_notfound", "E_provider"}
          /\ content' = content
          /\ kb' = kb
          /\ docs' = docs
          /\ collections' = collections
          /\ files' = files]_vars

\* process_content was refused for its provider on a record that an
\* earlier call had completed and indexed
C26_Witness ==
    /\ last.op = "process"
    /\ last.ret = "raised"
    /\ last.err = "E_provider"
    /\ Exists(last.c)
    /\ content[last.c].status = "completed"
    /\ content[last.c].error = NoneVal
    /\ Resolves(CollOf(last.c), content[last.c].docid)

\* C27 as stated: between calls, the collection of a knowledge base holds
\* for each of its content records at most one entry, the one the record's
\* chroma_document_id names.
C27_OneEntryPerRecord ==
    Idle
    => \A c \in ContentIds :
          Exists(c)
          => \A d \in EntriesOf(c) :
                d.coll = CollOf(c) => d.id = content[c].docid

\* C28 as stated: when update_content_summary raises on a record whose
\* collection is there, the record is written as it was before the call,
\* still names the vector id it named, and the entry of that id is still
\* in the collection.
C28_FailedUpdateKeepsEntry ==
    [][(/\ pc \in {"u_delete", "u_add"}
        /\ last'.op = "update"
        /\ last'.ret = "raised"
        /\ last'.err # "E_collection")
       => /\ content' = content
          /\ content[call.c].docid = call.old
          /\ \E d \in docs' :
                d.coll = kb[call.k].coll /\ d.id = call.old]_vars

\* C29 as stated: a content record whose status is 'completed' has no
\* processing_error.
C29_CompletedHasNoError ==
    \A c \in ContentIds :
        (Exists(c) /\ content[c].status = "completed")
        => content[c].error = NoneVal

\* C30: process_content returns true or raises and never returns false;
\* when it returns true the record is 'completed' and names a vector id it
\* did not name before, whose entry is in the collection; when it raises
\* after it had set 'processing' the record is 'failed'.
C30_TrueOrRaises ==
    last.op = "process"
    => /\ last.ret \in {"true", "raised"}
       /\ last.ret = "true"
             => /\ content[last.c].status = "completed"
                /\ content[last.c].docid # NoDoc
                /\ content[last.c].docid # last.old
                /\ Resolves(CollOf(last.c), content[last.c].docid)
       /\ (last.ret = "raised" /\ last.err \notin {"E_notfound", "E_provider"})
             => content[last.c].status = "failed"

\* process_content returned true on a record that had failed before
C30_Witness ==
    /\ last.op = "process"
    /\ last.ret = "true"
    /\ last.from = "failed"
    /\ content[last.c].status = "completed"
    /\ Resolves(CollOf(last.c), content[last.c].docid)

====
